---------------------------- MODULE Spec2Model ----------------------------
(***************************************************************************)
(* Model of the AtlasRide backend: the movement engine                     *)
(* (app/services/simulation.py), route acquisition                         *)
(* (app/services/osrm_service.py), the request handlers that drive them    *)
(* (app/routes.py, app/main.py) and the record store they talk to         *)
(* (app/database.py).                                                      *)
(*                                                                         *)
(* Numbers.  Python floats are modelled by exact integer arithmetic on a   *)
(* grid on which the source's formulas have closed forms:                  *)
(*  - a coordinate is <<lng, lat>>; one unit is 1/6371000 rad, i.e. one    *)
(*    metre of arc, and every point lies on the meridian lng = c of its    *)
(*    neighbour or, with it, on the equator lat = 0.  There the haversine  *)
(*    distance is the absolute coordinate difference in metres and the     *)
(*    bearing is one of 0, 90, 180, 270;                                   *)
(*  - speeds are multiples of 18 km/h, so that the per-tick budget         *)
(*    (speed / 3.6) * 0.2 is a whole number of metres;                     *)
(*  - progress is the percentage rounded down to a whole number;           *)
(*  - route distances are millimetres, durations milliseconds.             *)
(* Floating-point rounding itself is outside the model.                    *)
(***************************************************************************)
EXTENDS Integers, Sequences, FiniteSets, TLC

VARIABLES
    running,        \* SimulationEngine.running
    car_states,     \* SimulationEngine.car_states: car_id -> state
    loop,           \* the start() coroutine: its position, snapshot and cursor
    cars,           \* record store, table cars: id -> [speed, status]
    routes,         \* record store, table routes: car_id -> route record
    car_positions,  \* record store, table car_positions: car_id -> latest row
    next_id,        \* the number of the next fresh uuid4
    gr,             \* one in-flight call of OSRMService.get_route
    trace,          \* what the most recent handler did (calls, samples, error)
    hist,           \* per car: ticks spent on the current segment
    loop2           \* the coroutine of a second call of start()

vars == <<running, car_states, loop, cars, routes, car_positions, next_id,
          gr, trace, hist, loop2>>

-----------------------------------------------------------------------------
(* Bounds and program constants *)

\* the number of cars ever spawned under Spec (uuid4 never repeats an id)
MaxCars == 1

\* the number of cars ever spawned under SpecFleet
MaxFleet == 2

\* SIMULATION_UPDATE_INTERVAL, default "0.2" seconds, in tenths of a second
UpdateIntervalTenths == 2

\* steps = 10 of the straight-line fallback
steps == 10


\* request speeds in km/h: budgets of 0 and 4 metres per tick
Speeds == {0, 72}

\* the (start, end) pairs of the requests: northwards on the meridian lng = 0,
\* westwards on the equator
Endpoints == { [start_lng |-> 0, start_lat |-> 0, end_lng |-> 0, end_lat |-> 10],
               [start_lng |-> 10, start_lat |-> 0, end_lng |-> 0, end_lat |-> 0] }

-----------------------------------------------------------------------------
(* Geospatial math *)

Abs(x) == IF x < 0 THEN -x ELSE x

\* python's coordinates[i], 0-based
At(s, i) == s[i + 1]

\* _calculate_distance(lat1, lng1, lat2, lng2): R * c of the haversine formula.
\* On a meridian a = sin^2(dphi/2), so R * c = R * |dphi|; on the equator
\* a = sin^2(dlambda/2), so R * c = R * |dlambda|.  Off the grid the closed
\* form does not exist and the operator is left undefined.
calculate_distance(lat1, lng1, lat2, lng2) ==
    IF lng1 = lng2 THEN Abs(lat2 - lat1)
    ELSE IF lat1 = 0 /\ lat2 = 0 THEN Abs(lng2 - lng1)
    ELSE CHOOSE d \in {} : TRUE

\* calculate_bearing(lng1, lat1, lng2, lat2): (degrees(atan2(x, y)) + 360) % 360
\* with x = sin(dlng) cos(lat2), y = cos(lat1) sin(lat2) - sin(lat1) cos(lat2) cos(dlng).
\* On a meridian x = 0 and y = sin(lat2 - lat1): 0 northwards and for equal
\* points (atan2(0, 0) = 0), 180 southwards.  On the equator y = 0 and
\* x = sin(dlng): 90 eastwards, 270 westwards.
calculate_bearing(lng1, lat1, lng2, lat2) ==
    IF lng1 = lng2 THEN (IF lat2 < lat1 THEN 180 ELSE 0)
    ELSE IF lat1 = 0 /\ lat2 = 0 THEN (IF lng2 > lng1 THEN 90 ELSE 270)
    ELSE CHOOSE d \in {} : TRUE


-----------------------------------------------------------------------------
(* Route acquisition: OSRMService.get_route *)

Point(lng, lat) == <<lng, lat>>

StartOf(req) == Point(req.start_lng, req.start_lat)
EndOf(req) == Point(req.end_lng, req.end_lat)
MidOf(req) == Point((req.start_lng + req.end_lng) \div 2, (req.start_lat + req.end_lat) \div 2)

NoRequest == [start_lng |-> 0, start_lat |-> 0, end_lng |-> 0, end_lat |-> 0]

NoRoute == [geometry |-> [type |-> "", coordinates |-> <<>>],
            distance |-> 0, duration |-> 0, coordinates |-> <<>>]

\* One entry of the "routes" list of a provider's body.
RouteObject(coords, dist, dur) ==
    [has_geometry |-> TRUE, coordinates |-> coords, distance |-> dist, duration |-> dur]

\* What a provider may answer: the transport's outcome, the HTTP status and the
\* body as far as get_route reads it.
Response(net, status, json, code, has_routes, rts) ==
    [net |-> net, status |-> status, json |-> json, code |-> code,
     has_routes |-> has_routes, routes |-> rts]

\* no answer (yet)
NoResponse == Response(FALSE, -1, FALSE, "", FALSE, <<>>)

\* The answers that make a tier fail in the source: a transport error
\* (client.get raises), an error status (raise_for_status), a body that is no
\* JSON (response.json), a code other than "Ok", no "routes" key, an empty
\* "routes" list, a route without "geometry".
FailingResponses ==
    { Response(FALSE, 0, FALSE, "", FALSE, <<>>),
      Response(TRUE, 500, FALSE, "", FALSE, <<>>),
      Response(TRUE, 200, FALSE, "", FALSE, <<>>),
      Response(TRUE, 200, TRUE, "NoRoute", FALSE, <<>>),
      Response(TRUE, 200, TRUE, "Ok", FALSE, <<>>),
      Response(TRUE, 200, TRUE, "Ok", TRUE, <<>>),
      Response(TRUE, 200, TRUE, "Ok", TRUE,
               << [has_geometry |-> FALSE, coordinates |-> <<>>,
                   distance |-> 0, duration |-> 0] >>) }

\* Answers get_route accepts from provider p for req: the direct segment, a
\* route via the midpoint, and a body whose geometry holds a single
\* coordinate.  Distances (mm) and durations (ms) are the provider's figures.
ProviderFigure(p) == IF p = "primary" THEN 12000 ELSE 13000

RoutedResponses(p, req) ==
    { Response(TRUE, 200, TRUE, "Ok", TRUE,
               << RouteObject(<<StartOf(req), EndOf(req)>>, ProviderFigure(p), 1500) >>),
      Response(TRUE, 200, TRUE, "Ok", TRUE,
               << RouteObject(<<StartOf(req), MidOf(req), EndOf(req)>>,
                              ProviderFigure(p) + 500, 1700) >>),
      Response(TRUE, 200, TRUE, "Ok", TRUE,
               << RouteObject(<<StartOf(req)>>, 0, 0) >>) }

Responses(p, req) == FailingResponses \cup RoutedResponses(p, req)

\* The pairs of answers spawn_car is run with: the primary provider answers
\* with the direct segment or with a single coordinate, or it fails and the
\* public provider answers with the route via the midpoint.  (The tiers
\* themselves, with every answer and the straight line, are the subject of
\* SpecRoute.)
SpawnAnswers(req) ==
    { <<r, NoResponse>> : r \in { x \in RoutedResponses("primary", req) :
                                    Len(x.routes[1].coordinates) # 3 } }
    \cup { <<Response(FALSE, 0, FALSE, "", FALSE, <<>>), r>> :
              r \in { x \in RoutedResponses("secondary", req) :
                        Len(x.routes[1].coordinates) = 3 } }

\* the request spawn_car is run with: westwards on the equator
SpawnEndpoints == { [start_lng |-> 10, start_lat |-> 0, end_lng |-> 0, end_lat |-> 0] }

OSRMRoute(geometry, distance, duration, coordinates) ==
    [geometry |-> geometry, distance |-> distance, duration |-> duration,
     coordinates |-> coordinates]

Raises(exc) == [ok |-> FALSE, exc |-> exc, route |-> NoRoute]

\* One tier, from the response to the return statement (lines 44-64, 77-95):
\* the route it returns, or the class of the exception its statements raise
try_provider(resp) ==
    IF ~resp.net THEN Raises("httpx.ConnectError")
    ELSE IF resp.status >= 400 THEN Raises("httpx.HTTPStatusError")
    ELSE IF ~resp.json THEN Raises("JSONDecodeError")
    ELSE IF resp.code # "Ok" THEN Raises("Exception")
    ELSE IF ~resp.has_routes THEN Raises("KeyError")
    ELSE IF Len(resp.routes) = 0 THEN Raises("IndexError")
    ELSE LET route == resp.routes[1] IN
         IF ~route.has_geometry THEN Raises("KeyError")
         ELSE [ok |-> TRUE, exc |-> "none",
               route |-> OSRMRoute([type |-> "LineString", coordinates |-> route.coordinates],
                                   route.distance, route.duration, route.coordinates)]

\* the classes of httpx.HTTPError, and of Exception
HTTPErrors == {"httpx.ConnectError", "httpx.HTTPStatusError"}
Exceptions == HTTPErrors \cup {"JSONDecodeError", "Exception", "KeyError", "IndexError"}

\* line 66: except (httpx.HTTPError, Exception)
primary_catches(exc) == exc \in HTTPErrors \/ exc \in Exceptions

\* faulty variant: the public tier's clause narrowed to except httpx.HTTPError
secondary_catches_http_only(exc) == exc \in HTTPErrors

\* line 96: except Exception
secondary_catches(exc) == exc \in Exceptions

\* faulty variant: range(steps) in place of range(steps + 1)
fallback_coordinates_range_steps(req) ==
    [i \in 1..steps |->
        Point(req.start_lng + ((req.end_lng - req.start_lng) * (i - 1)) \div steps,
              req.start_lat + ((req.end_lat - req.start_lat) * (i - 1)) \div steps)]

\* lines 101-107: coordinates of the straight line, t = i / steps
fallback_coordinates(req) ==
    [i \in 1..(steps + 1) |->
        Point(req.start_lng + ((req.end_lng - req.start_lng) * (i - 1)) \div steps,
              req.start_lat + ((req.end_lat - req.start_lat) * (i - 1)) \div steps)]

\* lines 112-114: sqrt(dx*dx + dy*dy) * 1000 with
\* dx = dlng * 111.32 * cos(radians(start_lat)), dy = dlat * 110.57 (km).
\* One unit is 8.993216e-6 degrees, so a unit of latitude counts 994.380 mm
\* and a unit of longitude on the equator 1001.125 mm; on the grid one of dx,
\* dy is 0 and the root is the absolute value of the other.
fallback_distance(req) ==
    IF req.end_lng = req.start_lng
    THEN (Abs(req.end_lat - req.start_lat) * 994380) \div 1000
    ELSE IF req.end_lat = req.start_lat /\ req.start_lat = 0
    THEN (Abs(req.end_lng - req.start_lng) * 1001125) \div 1000
    ELSE CHOOSE d \in {} : TRUE

\* lines 99-126: the straight-line route
straight_line_route(req) ==
    LET coordinates == fallback_coordinates(req)
        distance == fallback_distance(req)
        duration == distance \div 10
    IN OSRMRoute([type |-> "LineString", coordinates |-> coordinates],
                 distance, duration, coordinates)

\* One call of get_route.  pc: "idle", "primary" and "secondary" (the request
\* to that provider is awaited), "returned", "raised"; queried: the providers
\* asked so far; resp1, resp2: their answers; tier: the return statement
\* reached (line 59, 90 or 118); route: the value returned.
IdleCall == [pc |-> "idle", req |-> NoRequest, queried |-> <<>>,
             resp1 |-> NoResponse, resp2 |-> NoResponse, tier |-> "none",
             route |-> NoRoute]

Returned(g, tier, route) ==
    [g EXCEPT !.pc = "returned", !.tier = tier, !.route = route]

\* faulty variant: the primary tier's except clause goes straight to the straight line
after_primary_failure_skips_public(g) ==
    Returned(g, "synthetic", straight_line_route(g.req))

\* lines 66-77: the except clause of the primary tier sends the request to
\* the public provider
after_primary_failure(g) ==
    [g EXCEPT !.pc = "secondary", !.queried = Append(@, "secondary")]

\* lines 96-126: the except clause of the public tier falls through to the
\* straight line, which is returned
after_secondary_failure(g) ==
    Returned(g, "synthetic", straight_line_route(g.req))

\* line 44: get_route is entered and the request to base_url is sent
call_route(req) ==
    [IdleCall EXCEPT !.pc = "primary", !.req = req, !.queried = <<"primary">>]

\* lines 44-67: the primary provider's answer is handled
on_primary_response(g, resp) ==
    LET g1 == [g EXCEPT !.resp1 = resp]
        r == try_provider(resp)
    IN IF r.ok THEN Returned(g1, "primary", r.route)
       ELSE IF primary_catches(r.exc) THEN after_primary_failure(g1)
       ELSE [g1 EXCEPT !.pc = "raised"]

\* lines 77-126: the public provider's answer is handled
on_secondary_response(g, resp) ==
    LET g1 == [g EXCEPT !.resp2 = resp]
        r == try_provider(resp)
    IN IF r.ok THEN Returned(g1, "secondary", r.route)
       ELSE IF secondary_catches(r.exc) THEN after_secondary_failure(g1)
       ELSE [g1 EXCEPT !.pc = "raised"]

\* GET /api/route (routes.py lines 117-126): get_route is called
RouteCall(req) ==
    /\ gr.pc = "idle"
    /\ gr' = call_route(req)
    /\ UNCHANGED <<running, car_states, loop, cars, routes, car_positions,
                   next_id, trace, hist, loop2>>

\* the primary provider's answer arrives
PrimaryResponse(resp) ==
    /\ gr.pc = "primary"
    /\ gr' = on_primary_response(gr, resp)
    /\ UNCHANGED <<running, car_states, loop, cars, routes, car_positions,
                   next_id, trace, hist, loop2>>

\* the public provider's answer arrives
SecondaryResponse(resp) ==
    /\ gr.pc = "secondary"
    /\ gr' = on_secondary_response(gr, resp)
    /\ UNCHANGED <<running, car_states, loop, cars, routes, car_positions,
                   next_id, trace, hist, loop2>>

\* routes.py lines 123-126: the handler hands the route to its client, or
\* turns the exception into a 500
RouteReturn ==
    /\ gr.pc \in {"returned", "raised"}
    /\ gr' = IdleCall
    /\ UNCHANGED <<running, car_states, loop, cars, routes, car_positions,
                   next_id, trace, hist, loop2>>

\* get_route as spawn_car awaits it: the call's final state for the two
\* providers' answers
get_route(req, resp1, resp2) ==
    LET g1 == on_primary_response(call_route(req), resp1)
    IN IF g1.pc = "secondary" THEN on_secondary_response(g1, resp2) ELSE g1

-----------------------------------------------------------------------------
(* Movement engine: SimulationEngine *)

\* The record-store calls of database.py that the handlers await.  Each call
\* may raise (the network or the store fails); a handler is run with the name
\* of the call that raises in it, or "none".
StoreCalls == {"insert_car", "insert_route", "insert_car_position",
               "update_car_status", "get_all_cars", "get_car_latest_position"}

Failures == StoreCalls \cup {"none"}

\* the calls update_car_position and _finish_car make
AdvanceFailures == {"none", "get_all_cars", "get_car_latest_position",
                    "insert_car_position", "update_car_status"}

\* the calls spawn_car and add_car make
SpawnFailures == {"none", "insert_car", "insert_route", "insert_car_position"}

\* f with key k bound to v; f without key k
Put(f, k, v) == [x \in (DOMAIN f) \cup {k} |-> IF x = k THEN v ELSE f[x]]
Drop(f, k) == [x \in (DOMAIN f) \ {k} |-> f[x]]

Empty == [x \in {} |-> 0]

\* the dict handed to db.insert_car_position
Sample(car_id, lng, lat, heading, progress) ==
    [car_id |-> car_id, lng |-> lng, lat |-> lat, heading |-> heading,
     progress |-> progress]

\* What a call of an engine method did: the registry and the tables after it,
\* the store calls it made in order, the samples it handed to
\* insert_car_position, the exception it raised ("none" if it returned) and
\* the distance budget it computed (-1 if it did not get that far).
Outcome(cs, dc, dp, calls, emitted, raised, budget) ==
    [car_states |-> cs, cars |-> dc, car_positions |-> dp, calls |-> calls,
     emitted |-> emitted, raised |-> raised, budget |-> budget]

\* faulty variant: the bearing taken from the second point to the first
calculate_initial_heading_reversed(coordinates) ==
    IF Len(coordinates) < 2 THEN 0
    ELSE calculate_bearing(At(coordinates, 1)[1], At(coordinates, 1)[2],
                           At(coordinates, 0)[1], At(coordinates, 0)[2])

\* lines 67-74
calculate_initial_heading(coordinates) ==
    IF Len(coordinates) < 2 THEN 0
    ELSE calculate_bearing(At(coordinates, 0)[1], At(coordinates, 0)[2],
                           At(coordinates, 1)[1], At(coordinates, 1)[2])

\* lines 48-53: the state add_car stores
initial_state(route_coordinates) ==
    [coordinates |-> route_coordinates, current_index |-> 0, progress |-> 0,
     status |-> "moving"]

\* faulty variant: the length check off by one
path_too_short_below_one(route_coordinates) ==
    Len(route_coordinates) < 1

\* line 45
path_too_short(route_coordinates) ==
    Len(route_coordinates) < 2

\* lines 37-65
add_car(cs, dc, dp, car_id, route_coordinates, fail) ==
    IF path_too_short(route_coordinates)
    THEN Outcome(cs, dc, dp, <<>>, <<>>, "ValueError", -1)
    ELSE LET cs1 == Put(cs, car_id, initial_state(route_coordinates))
             start_coord == At(route_coordinates, 0)
             sample == Sample(car_id, start_coord[1], start_coord[2],
                              calculate_initial_heading(route_coordinates), 0)
         IN IF fail = "insert_car_position"
            THEN Outcome(cs1, dc, dp, <<"insert_car_position">>, <<sample>>,
                         "StoreError", -1)
            ELSE Outcome(cs1, dc, Put(dp, car_id, sample), <<"insert_car_position">>,
                         <<sample>>, "none", -1)

\* faulty variant: the default speed of 30 km/h in place of the stored one
distance_per_update_default(speed_kmh) ==
    (30 * UpdateIntervalTenths) \div 36

\* line 125: (speed_kmh / 3.6) * update_interval, in metres
distance_per_update(speed_kmh) ==
    (speed_kmh * UpdateIntervalTenths) \div 36

\* faulty variant: the car is finished in the registry only, the store is
\* not told
finish_car_unreported(cs, dc, dp, car_id, fail) ==
    IF car_id \notin DOMAIN cs THEN Outcome(cs, dc, dp, <<>>, <<>>, "none", -1)
    ELSE Outcome([cs EXCEPT ![car_id].status = "finished", ![car_id].progress = 100],
                 dc, dp, <<>>, <<>>, "none", -1)

\* lines 196-206
finish_car(cs, dc, dp, car_id, fail) ==
    IF car_id \notin DOMAIN cs THEN Outcome(cs, dc, dp, <<>>, <<>>, "none", -1)
    ELSE LET cs1 == [cs EXCEPT ![car_id].status = "finished",
                               ![car_id].progress = 100]
         IN IF fail = "update_car_status"
            THEN Outcome(cs1, dc, dp, <<"update_car_status">>, <<>>, "StoreError", -1)
            ELSE Outcome(cs1,
                         IF car_id \in DOMAIN dc
                         THEN [dc EXCEPT ![car_id].status = "finished"] ELSE dc,
                         dp, <<"update_car_status">>, <<>>, "none", -1)

\* faulty variant: the share of the path that remains
overall_progress_remaining(state) ==
    ((Len(state.coordinates) - 1 - state.current_index) * 100)
        \div (Len(state.coordinates) - 1)

\* line 166
overall_progress(state) ==
    (state.current_index * 100) \div (Len(state.coordinates) - 1)

\* lines 165-176: the progress is stored and the sample handed to the store;
\* st is the car's state after the move, calls the store calls made so far
store_position(cs, dc, dp, car_id, st, new_position, heading, calls, budget, fail) ==
    LET progress == overall_progress(st)
        cs1 == [cs EXCEPT ![car_id] = [st EXCEPT !.progress = progress]]
        sample == Sample(car_id, new_position[1], new_position[2], heading, progress)
        calls1 == Append(calls, "insert_car_position")
    IN IF fail = "insert_car_position"
       THEN Outcome(cs1, dc, dp, calls1, <<sample>>, "StoreError", budget)
       ELSE Outcome(cs1, dc, Put(dp, car_id, sample), calls1, <<sample>>, "none", budget)

\* line 134: the budget reaches the next waypoint
reaches_waypoint(distance_per_update_, segment_distance) ==
    distance_per_update_ >= segment_distance

\* faulty variant: the stored heading is not used
previous_heading_zero(dp, car_id) ==
    0

\* line 148: latest_pos["heading"] if latest_pos else 0.0
previous_heading(dp, car_id) ==
    IF car_id \in DOMAIN dp THEN dp[car_id].heading ELSE 0

\* faulty variant: two waypoints per advance
step_index_by_two(current_index) ==
    current_index + 2

\* line 135: state["current_index"] += 1
step_index(current_index) ==
    current_index + 1

\* lines 135-148: the move onto the next waypoint
move_to_waypoint(cs, dc, dp, car_id, budget, fail) ==
    LET state == [cs[car_id] EXCEPT !.current_index = step_index(@)]
        coordinates == state.coordinates
        new_position == At(coordinates, state.current_index)
        calls == <<"get_all_cars">>
    IN IF state.current_index < Len(coordinates) - 1
       THEN LET next_coord == At(coordinates, state.current_index + 1)
                heading == calculate_bearing(new_position[1], new_position[2],
                                             next_coord[1], next_coord[2])
            IN store_position(cs, dc, dp, car_id, state, new_position, heading,
                              calls, budget, fail)
       ELSE IF fail = "get_car_latest_position"
            \* the index is already incremented in the shared state dict
            THEN Outcome([cs EXCEPT ![car_id] = state], dc, dp,
                         Append(calls, "get_car_latest_position"), <<>>,
                         "StoreError", budget)
            ELSE LET heading == previous_heading(dp, car_id)
                 IN store_position(cs, dc, dp, car_id, state, new_position, heading,
                                   Append(calls, "get_car_latest_position"),
                                   budget, fail)

\* faulty variant: line 163 missing, the path keeps its waypoint
rewrite_point_kept(coordinates, current_index, new_position) ==
    coordinates

\* faulty variant: coordinates[current_index + 1] = new_position
rewrite_point_next(coordinates, current_index, new_position) ==
    [coordinates EXCEPT ![current_index + 2] = new_position]

\* faulty variant: coordinates.append(new_position)
rewrite_point_appended(coordinates, current_index, new_position) ==
    Append(coordinates, new_position)

\* line 163: coordinates[current_index] = new_position
rewrite_point(coordinates, current_index, new_position) ==
    [coordinates EXCEPT ![current_index + 1] = new_position]

\* lines 150-163: the move between two waypoints
interpolate(cs, dc, dp, car_id, budget, segment_distance, fail) ==
    LET state == cs[car_id]
        current_index == state.current_index
        current_point == At(state.coordinates, current_index)
        next_point == At(state.coordinates, current_index + 1)
        new_lng == IF segment_distance > 0
                   THEN current_point[1]
                        + ((next_point[1] - current_point[1]) * budget) \div segment_distance
                   ELSE current_point[1]
        new_lat == IF segment_distance > 0
                   THEN current_point[2]
                        + ((next_point[2] - current_point[2]) * budget) \div segment_distance
                   ELSE current_point[2]
        new_position == Point(new_lng, new_lat)
        heading == calculate_bearing(current_point[1], current_point[2],
                                     next_point[1], next_point[2])
        moved == [state EXCEPT !.coordinates =
                                  rewrite_point(@, current_index, new_position)]
    IN store_position(cs, dc, dp, car_id, moved, new_position, heading,
                      <<"get_all_cars">>, budget, fail)

\* faulty variant: the car without a record is skipped and stays registered
remove_car_skipped(cs, car_id) ==
    cs

\* line 117: del self.car_states[car_id]
remove_car(cs, car_id) ==
    Drop(cs, car_id)

\* faulty variant: the finished check dropped
is_finished_never(state) ==
    FALSE

\* line 96
is_finished(state) ==
    state.status = "finished"

\* faulty variant: the car is finished one waypoint before the last
at_last_waypoint_early(current_index, coordinates) ==
    current_index >= Len(coordinates) - 2

\* line 103: current_index >= len(coordinates) - 1
at_last_waypoint(current_index, coordinates) ==
    current_index >= Len(coordinates) - 1

\* faulty variant: no membership test, self.car_states[car_id] raises
not_registered_raises(cs, dc, dp) ==
    Outcome(cs, dc, dp, <<>>, <<>>, "KeyError", -1)

\* lines 92-93: car_id not in self.car_states, return
not_registered(cs, dc, dp) ==
    Outcome(cs, dc, dp, <<>>, <<>>, "none", -1)

\* lines 87-176
update_car_position(cs, dc, dp, car_id, fail) ==
    IF car_id \notin DOMAIN cs THEN not_registered(cs, dc, dp)
    ELSE IF is_finished(cs[car_id])
    THEN Outcome(cs, dc, dp, <<>>, <<>>, "none", -1)
    ELSE LET state == cs[car_id]
             coordinates == state.coordinates
             current_index == state.current_index
         IN IF at_last_waypoint(current_index, coordinates)
            THEN finish_car(cs, dc, dp, car_id, fail)
            ELSE IF fail = "get_all_cars"
            THEN Outcome(cs, dc, dp, <<"get_all_cars">>, <<>>, "StoreError", -1)
            ELSE IF car_id \notin DOMAIN dc
            THEN Outcome(remove_car(cs, car_id), dc, dp, <<"get_all_cars">>, <<>>,
                         "none", -1)
            ELSE LET current_point == At(coordinates, current_index)
                     next_point == At(coordinates, current_index + 1)
                     budget == distance_per_update(dc[car_id].speed)
                     segment_distance ==
                         calculate_distance(current_point[2], current_point[1],
                                            next_point[2], next_point[1])
                 IN IF reaches_waypoint(budget, segment_distance)
                    THEN move_to_waypoint(cs, dc, dp, car_id, budget, fail)
                    ELSE interpolate(cs, dc, dp, car_id, budget, segment_distance, fail)

-----------------------------------------------------------------------------
(* Observation: the last handler's effects, and the ticks per segment *)

NoClear == [k |-> 0, d |-> 0, L |-> 0, valid |-> FALSE]

\* op: the handler; car_id: the car it was about (0: none); calls: the store
\* calls and engine methods it ran, in order; emitted: the samples handed to
\* insert_car_position; raised: the exception that ended it or "none";
\* coords: the path handed to add_car; before: the car's status when the
\* handler began; cleared: the tick count of the segment it completed.
Trace(op, car_id, calls, emitted, raised, coords, before, cleared) ==
    [op |-> op, car_id |-> car_id, calls |-> calls, emitted |-> emitted,
     raised |-> raised, coords |-> coords, before |-> before, cleared |-> cleared]

NoTrace == Trace("none", 0, <<>>, <<>>, "none", <<>>, "absent", NoClear)

\* length of the segment that starts at the state's current waypoint
segment_length(state) ==
    IF state.current_index >= Len(state.coordinates) - 1 THEN 0
    ELSE LET a == At(state.coordinates, state.current_index)
             b == At(state.coordinates, state.current_index + 1)
         IN calculate_distance(a[2], a[1], b[2], b[1])

\* ticks: advances that spent a budget on the current segment; budget: the
\* budget of each of them; length: the segment's length when it was entered;
\* valid: all of them had the same budget > 0
FreshHist(state) ==
    [ticks |-> 0, budget |-> 0, length |-> segment_length(state), valid |-> TRUE]

\* the segment's count after one more advance with this budget
Ticked(h, budget) ==
    IF ~h.valid \/ budget <= 0 \/ (h.ticks > 0 /\ h.budget # budget)
    THEN [ticks |-> 0, budget |-> 0, length |-> h.length, valid |-> FALSE]
    ELSE [ticks |-> h.ticks + 1, budget |-> budget, length |-> h.length,
          valid |-> TRUE]

\* hist after car_id's advance with outcome r from registry cs
HistAfter(cs, r, car_id) ==
    IF car_id \notin DOMAIN r.car_states
    THEN [c \in (DOMAIN hist) \cap (DOMAIN r.car_states) |-> hist[c]]
    ELSE IF car_id \notin DOMAIN cs \/ r.budget < 0 THEN hist
    ELSE IF r.car_states[car_id].current_index > cs[car_id].current_index
    THEN [hist EXCEPT ![car_id] = FreshHist(r.car_states[car_id])]
    ELSE [hist EXCEPT ![car_id] = Ticked(hist[car_id], r.budget)]

\* the count of the segment car_id's advance completed, if it completed one
ClearedBy(cs, r, car_id) ==
    IF /\ car_id \in DOMAIN cs
       /\ car_id \in DOMAIN r.car_states
       /\ r.budget >= 0
       /\ r.car_states[car_id].current_index > cs[car_id].current_index
    THEN LET h == Ticked(hist[car_id], r.budget)
         IN [k |-> h.ticks, d |-> h.budget, L |-> h.length, valid |-> h.valid]
    ELSE NoClear

StatusIn(cs, car_id) ==
    IF car_id \in DOMAIN cs THEN cs[car_id].status ELSE "absent"

-----------------------------------------------------------------------------
(* Tick scheduler: SimulationEngine.start, stop, update_all_cars *)

\* line 79: list(self.car_states.keys()); a dict keeps insertion order, and
\* cars are inserted in the order of their ids
RECURSIVE keys_list(_)
keys_list(S) ==
    IF S = {} THEN <<>>
    ELSE LET m == CHOOSE x \in S : \A y \in S : x <= y
         IN <<m>> \o keys_list(S \ {m})

IdleLoop == [pc |-> "not_started", car_ids |-> <<>>, i |-> 0]

\* lines 76-79: a cycle begins with the snapshot of the registered ids
begin_cycle(cs) ==
    [pc |-> "for", car_ids |-> keys_list(DOMAIN cs), i |-> 0]

\* main.py startup_event, start() lines 19-26: the flag is set and the first
\* cycle entered
Startup ==
    /\ loop.pc = "not_started"
    /\ running' = TRUE
    /\ loop' = begin_cycle(car_states)
    /\ UNCHANGED <<car_states, cars, routes, car_positions, next_id, gr, trace, hist, loop2>>

\* faulty variant: no try/except around update_car_position, an error ends the cycle
after_car_abort(l, raised) ==
    IF raised # "none" THEN [l EXCEPT !.pc = "sleep"] ELSE [l EXCEPT !.i = @ + 1]

\* faulty variant: the exception leaves update_all_cars and the while loop
after_car_exits(l, raised) ==
    IF raised # "none" THEN [l EXCEPT !.pc = "done"] ELSE [l EXCEPT !.i = @ + 1]

\* lines 82-85: the loop position after car number i of the snapshot was
\* advanced, whether update_car_position returned or raised
after_car(l, raised) ==
    [l EXCEPT !.i = @ + 1]

\* lines 81-85: one iteration of the for loop
AdvanceCar(fail) ==
    /\ loop.pc = "for"
    /\ loop.i < Len(loop.car_ids)
    /\ LET car_id == At(loop.car_ids, loop.i)
           r == update_car_position(car_states, cars, car_positions, car_id, fail)
       IN /\ car_states' = r.car_states
          /\ cars' = r.cars
          /\ car_positions' = r.car_positions
          /\ hist' = HistAfter(car_states, r, car_id)
          /\ trace' = Trace("update_car_position", car_id, r.calls, r.emitted,
                            r.raised, <<>>, StatusIn(car_states, car_id),
                            ClearedBy(car_states, r, car_id))
          /\ loop' = after_car(loop, r.raised)
    /\ UNCHANGED <<running, routes, next_id, gr, loop2>>

\* lines 26-27: update_all_cars returns and the loop sleeps update_interval
EndCycle ==
    /\ loop.pc = "for"
    /\ loop.i = Len(loop.car_ids)
    /\ loop' = [loop EXCEPT !.pc = "sleep"]
    /\ UNCHANGED <<running, car_states, cars, routes, car_positions, next_id,
                   gr, trace, hist, loop2>>

\* faulty variant: while True in place of while self.running
next_iteration_unconditional(l, cs, flag) ==
    begin_cycle(cs)

\* line 24: while self.running
next_iteration(l, cs, flag) ==
    IF flag THEN begin_cycle(cs) ELSE [l EXCEPT !.pc = "done"]

\* line 24: after the sleep the flag is read; the next cycle begins or the
\* coroutine ends
Wake ==
    /\ loop.pc = "sleep"
    /\ loop' = next_iteration(loop, car_states, running)
    /\ UNCHANGED <<running, car_states, cars, routes, car_positions, next_id,
                   gr, trace, hist, loop2>>

\* main.py shutdown_event, stop() lines 32-35
Stop ==
    /\ loop.pc # "not_started"
    /\ running
    /\ running' = FALSE
    /\ UNCHANGED <<car_states, loop, cars, routes, car_positions, next_id,
                   gr, trace, hist, loop2>>

\* lines 19-24: start() is called while the coroutine of the first call has
\* not ended; the method reads nothing before it sets the flag and enters
\* its own while loop
StartAgain ==
    /\ loop.pc \in {"for", "sleep"}
    /\ loop2.pc = "not_started"
    /\ running' = TRUE
    /\ loop2' = begin_cycle(car_states)
    /\ UNCHANGED <<car_states, loop, cars, routes, car_positions, next_id, gr,
                   trace, hist>>

\* lines 81-85 in the second coroutine
SecondAdvanceCar(fail) ==
    /\ loop2.pc = "for"
    /\ loop2.i < Len(loop2.car_ids)
    /\ LET car_id == At(loop2.car_ids, loop2.i)
           r == update_car_position(car_states, cars, car_positions, car_id, fail)
       IN /\ car_states' = r.car_states
          /\ cars' = r.cars
          /\ car_positions' = r.car_positions
          /\ hist' = HistAfter(car_states, r, car_id)
          /\ trace' = Trace("update_car_position", car_id, r.calls, r.emitted,
                            r.raised, <<>>, StatusIn(car_states, car_id),
                            ClearedBy(car_states, r, car_id))
          /\ loop2' = after_car(loop2, r.raised)
    /\ UNCHANGED <<running, routes, next_id, gr, loop>>

\* lines 26-27 in the second coroutine
SecondEndCycle ==
    /\ loop2.pc = "for"
    /\ loop2.i = Len(loop2.car_ids)
    /\ loop2' = [loop2 EXCEPT !.pc = "sleep"]
    /\ UNCHANGED <<running, car_states, loop, cars, routes, car_positions,
                   next_id, gr, trace, hist>>

\* line 24 in the second coroutine
SecondWake ==
    /\ loop2.pc = "sleep"
    /\ loop2' = next_iteration(loop2, car_states, running)
    /\ UNCHANGED <<running, car_states, loop, cars, routes, car_positions,
                   next_id, gr, trace, hist>>

-----------------------------------------------------------------------------
(* Request handlers: routes.py *)

\* the row spawn_car inserts into cars, as far as the engine reads it
CarRow(speed) == [speed |-> speed, status |-> "moving"]

RouteRow(route) ==
    [geometry |-> route.geometry, distance |-> route.distance,
     duration |-> route.duration]

\* lines 33-73: spawn_car from the moment get_route has ended in state g,
\* with the store call that fails
spawn_after_route(g, speed, fail) ==
       LET car_id == next_id
           cars1 == Put(cars, car_id, CarRow(speed))
           routes1 == Put(routes, car_id, RouteRow(g.route))
           a == add_car(car_states, cars1, car_positions, car_id,
                        g.route.coordinates, fail)
       IN IF g.pc # "returned"
          THEN /\ trace' = Trace("spawn_car", 0, <<>>, <<>>, "RouteError", <<>>,
                                 "absent", NoClear)
               /\ UNCHANGED <<car_states, cars, routes, car_positions, next_id, hist>>
          ELSE /\ next_id' = next_id + 1
               /\ IF fail = "insert_car"
                  THEN /\ trace' = Trace("spawn_car", car_id, <<"insert_car">>, <<>>,
                                         "StoreError", <<>>, "absent", NoClear)
                       /\ UNCHANGED <<car_states, cars, routes, car_positions, hist>>
                  ELSE IF fail = "insert_route"
                  THEN /\ cars' = cars1
                       /\ trace' = Trace("spawn_car", car_id,
                                         <<"insert_car", "insert_route">>, <<>>,
                                         "StoreError", <<>>, "absent", NoClear)
                       /\ UNCHANGED <<car_states, routes, car_positions, hist>>
                  ELSE /\ cars' = cars1
                       /\ routes' = routes1
                       /\ car_states' = a.car_states
                       /\ car_positions' = a.car_positions
                       /\ hist' = IF car_id \in DOMAIN a.car_states
                                  THEN Put(hist, car_id, FreshHist(a.car_states[car_id]))
                                  ELSE hist
                       /\ trace' = Trace("spawn_car", car_id,
                                         <<"insert_car", "insert_route", "add_car">>
                                             \o a.calls,
                                         a.emitted, a.raised, g.route.coordinates,
                                         "absent", NoClear)

\* lines 24-73: POST /api/spawn-car with the two providers' answers and the
\* store call that fails; limit bounds the number of spawns
SpawnCar(limit, req, speed, resp1, resp2, fail) ==
    /\ running
    /\ next_id <= limit
    /\ spawn_after_route(get_route(req, resp1, resp2), speed, fail)
    /\ UNCHANGED <<running, loop, gr, loop2>>

\* lines 24-31: POST /api/spawn-car is received and suspends in get_route,
\* whose HTTP requests are the handler's only awaits that give the event loop
\* to other coroutines (the store client of database.py is synchronous)
SpawnBegin(limit, req) ==
    /\ running
    /\ next_id <= limit
    /\ gr.pc = "idle"
    /\ gr' = call_route(req)
    /\ trace' = Trace("spawn_car", 0, <<"get_route">>, <<>>, "none", <<>>,
                      "absent", NoClear)
    /\ UNCHANGED <<running, car_states, loop, cars, routes, car_positions,
                   next_id, hist, loop2>>

\* lines 33-73: get_route has ended and the suspended spawn_car runs on
SpawnResume(speed, fail) ==
    /\ gr.pc \in {"returned", "raised"}
    /\ spawn_after_route(gr, speed, fail)
    /\ gr' = IdleCall
    /\ UNCHANGED <<running, loop, loop2>>

\* faulty variant: the reset empties the store's tables and leaves the
\* registry as it is
Reset_store_only(deleted) ==
    /\ running
    /\ car_positions' = IF deleted >= 1 THEN Empty ELSE car_positions
    /\ routes' = IF deleted >= 2 THEN Empty ELSE routes
    /\ cars' = IF deleted >= 3 THEN Empty ELSE cars
    /\ trace' = Trace("reset_simulation", 0, <<"delete_all_data">>, <<>>,
                      IF deleted = 3 THEN "none" ELSE "StoreError", <<>>,
                      "absent", NoClear)
    /\ UNCHANGED <<running, loop, next_id, gr, loop2, car_states, hist>>

\* lines 150-157: GET /api/health
health_check(flag, cs) ==
    [status |-> "healthy", simulation_running |-> flag,
     active_cars |-> Cardinality(DOMAIN cs)]

\* lines 129-147: POST /api/reset; deleted is the number of tables
\* delete_all_data emptied before it raised (3: it returned)
Reset(deleted) ==
    /\ running
    /\ car_states' = Empty
    /\ hist' = Empty
    /\ car_positions' = IF deleted >= 1 THEN Empty ELSE car_positions
    /\ routes' = IF deleted >= 2 THEN Empty ELSE routes
    /\ cars' = IF deleted >= 3 THEN Empty ELSE cars
    /\ trace' = Trace("reset_simulation", 0, <<"delete_all_data">>, <<>>,
                      IF deleted = 3 THEN "none" ELSE "StoreError", <<>>,
                      "absent", NoClear)
    /\ UNCHANGED <<running, loop, next_id, gr, loop2>>

-----------------------------------------------------------------------------
(* The record store's other writers *)

\* a car's row is deleted outside the engine, with the rows that refer to it
\* (simulation.py line 116: "Car deleted, remove from simulation")
ExternalDelete(car_id) ==
    /\ running
    /\ car_id \in DOMAIN cars
    /\ car_id \in DOMAIN car_states
    /\ cars' = Drop(cars, car_id)
    /\ routes' = [c \in (DOMAIN routes) \ {car_id} |-> routes[c]]
    /\ car_positions' = [c \in (DOMAIN car_positions) \ {car_id} |-> car_positions[c]]
    /\ UNCHANGED <<running, car_states, loop, next_id, gr, trace, hist, loop2>>

\* a car's speed is changed outside the engine (simulation.py lines 111-120:
\* the speed is read from the store on every tick)
ExternalSetSpeed(car_id, speed) ==
    /\ running
    /\ car_id \in DOMAIN cars
    /\ car_id \in DOMAIN car_states
    /\ cars[car_id].speed # speed
    /\ cars' = [cars EXCEPT ![car_id].speed = speed]
    /\ UNCHANGED <<running, car_states, loop, routes, car_positions, next_id,
                   gr, trace, hist, loop2>>

-----------------------------------------------------------------------------
(* Specifications *)

Init ==
    /\ running = FALSE
    /\ car_states = Empty
    /\ loop = IdleLoop
    /\ cars = Empty
    /\ routes = Empty
    /\ car_positions = Empty
    /\ next_id = 1
    /\ gr = IdleCall
    /\ trace = NoTrace
    /\ hist = Empty
    /\ loop2 = IdleLoop

\* The running engine with its whole environment: spawns with every store
\* failure, resets, and the store's other writers.  (The shutdown is left to
\* SpecFleet, SpecLive, SpecStride and SpecRestart.)
Next ==
    \/ Startup
    \/ \E fail \in AdvanceFailures : AdvanceCar(fail)
    \/ EndCycle
    \/ Wake
    \/ \E req \in SpawnEndpoints, speed \in Speeds, fail \in SpawnFailures :
         \E answers \in SpawnAnswers(req) :
            SpawnCar(MaxCars, req, speed, answers[1], answers[2], fail)
    \/ Reset(3)
    \/ \E car_id \in 1..MaxCars : ExternalDelete(car_id)
    \/ \E car_id \in 1..MaxCars, speed \in Speeds : ExternalSetSpeed(car_id, speed)

Spec == Init /\ [][Next]_vars

\* Several cars in one cycle: every spawn is answered by the primary provider
\* with the direct segment, at 72 km/h, and its store calls succeed; the store
\* calls of the advances may fail.
FleetAnswers(req) ==
    { <<r, NoResponse>> : r \in { x \in RoutedResponses("primary", req) :
                                    Len(x.routes[1].coordinates) = 2 } }

NextFleet ==
    \/ Startup
    \/ \E fail \in AdvanceFailures : AdvanceCar(fail)
    \/ EndCycle
    \/ Wake
    \/ Stop
    \/ \E req \in SpawnEndpoints :
         \E answers \in FleetAnswers(req) :
            SpawnCar(MaxFleet, req, 72, answers[1], answers[2], "none")

SpecFleet == Init /\ [][NextFleet]_vars

\* GET /api/route alone: one call of get_route after another
NextRoute ==
    \/ \E req \in Endpoints : RouteCall(req)
    \/ \E resp \in Responses("primary", gr.req) : PrimaryResponse(resp)
    \/ \E resp \in Responses("secondary", gr.req) : SecondaryResponse(resp)
    \/ RouteReturn

SpecRoute == Init /\ [][NextRoute]_vars

\* start() called a second time, by whoever holds the engine: the loop, one
\* car spawned as in SpecFleet, stop(), and the second call with the steps
\* of its coroutine.
NextRestart ==
    \/ Startup
    \/ \E fail \in AdvanceFailures : AdvanceCar(fail)
    \/ EndCycle
    \/ Wake
    \/ Stop
    \/ \E req \in SpawnEndpoints :
         \E answers \in FleetAnswers(req) :
            SpawnCar(MaxCars, req, 72, answers[1], answers[2], "none")
    \/ StartAgain
    \/ \E fail \in AdvanceFailures : SecondAdvanceCar(fail)
    \/ SecondEndCycle
    \/ SecondWake

SpecRestart == Init /\ [][NextRestart]_vars

\* Waypoints closer together than one budget: the car is spawned on the
\* straight line (both providers unreachable: 11 points, 1 m apart) or on the
\* primary provider's route via the midpoint, at 72 km/h; its store calls
\* succeed; the store calls of the advances may fail.
StrideAnswers(req) ==
    { << Response(FALSE, 0, FALSE, "", FALSE, <<>>),
         Response(FALSE, 0, FALSE, "", FALSE, <<>>) >> }
    \cup { <<r, NoResponse>> : r \in { x \in RoutedResponses("primary", req) :
                                         Len(x.routes[1].coordinates) = 3 } }

NextStride ==
    \/ Startup
    \/ \E fail \in AdvanceFailures : AdvanceCar(fail)
    \/ EndCycle
    \/ Wake
    \/ Stop
    \/ \E req \in SpawnEndpoints :
         \E answers \in StrideAnswers(req) :
            SpawnCar(MaxCars, req, 72, answers[1], answers[2], "none")

SpecStride == Init /\ [][NextStride]_vars

\* The tick loop's own steps.  The event loop resumes the coroutine whenever
\* its await is done: the store calls are synchronous and asyncio.sleep
\* returns after update_interval, so a step of the loop that stays possible
\* is eventually taken.
Tick ==
    \/ \E fail \in AdvanceFailures : AdvanceCar(fail)
    \/ EndCycle
    \/ Wake

\* The loop with the cars' spawns and deletions: every spawn is answered by
\* the primary provider with the direct segment at 72 km/h and its store
\* calls succeed; the store calls of the advances may fail.
NextLive ==
    \/ Startup
    \/ \E fail \in AdvanceFailures : AdvanceCar(fail)
    \/ EndCycle
    \/ Wake
    \/ Stop
    \/ \E req \in SpawnEndpoints :
         \E answers \in FleetAnswers(req) :
            SpawnCar(MaxCars, req, 72, answers[1], answers[2], "none")
    \/ \E car_id \in 1..MaxCars : ExternalDelete(car_id)

SpecLive == Init /\ [][NextLive]_vars /\ WF_vars(Tick)

\* The tick loop's steps when every store call succeeds.
SteadyTick ==
    \/ AdvanceCar("none")
    \/ EndCycle
    \/ Wake

\* A store that never fails: the loop, the shutdown, spawns at either speed
\* on the direct segment of 10 m, and the store's other writers.
NextSteady ==
    \/ Startup
    \/ AdvanceCar("none")
    \/ EndCycle
    \/ Wake
    \/ Stop
    \/ \E req \in SpawnEndpoints, speed \in Speeds :
         \E answers \in FleetAnswers(req) :
            SpawnCar(MaxCars, req, speed, answers[1], answers[2], "none")
    \/ \E car_id \in 1..MaxCars : ExternalDelete(car_id)
    \/ \E car_id \in 1..MaxCars, speed \in Speeds : ExternalSetSpeed(car_id, speed)

SpecSteady == Init /\ [][NextSteady]_vars /\ WF_vars(SteadyTick)

\* The handlers as the event loop interleaves them: a spawn is suspended
\* while its route is fetched (answered by the primary provider with the
\* direct segment), and the reset and the loop's steps run meanwhile.
NextRace ==
    \/ Startup
    \/ \E fail \in AdvanceFailures : AdvanceCar(fail)
    \/ EndCycle
    \/ Wake
    \/ \E req \in SpawnEndpoints : SpawnBegin(MaxCars, req)
    \/ \E answers \in FleetAnswers(gr.req) : PrimaryResponse(answers[1])
    \/ \E fail \in SpawnFailures : SpawnResume(72, fail)
    \/ Reset(3)

SpecRace == Init /\ [][NextRace]_vars

-----------------------------------------------------------------------------
(* Claims *)

\* the step is the advance of car c by the tick loop
IsAdvanceOf(c) ==
    /\ loop.pc = "for"
    /\ loop.i < Len(loop.car_ids)
    /\ At(loop.car_ids, loop.i) = c
    /\ loop'.pc = "for"
    /\ loop'.i = loop.i + 1

\* the step is a spawn_car that reached add_car
IsSpawnWithAddCar ==
    /\ next_id' = next_id + 1
    /\ trace'.op = "spawn_car"
    /\ \E n \in 1..Len(trace'.calls) : trace'.calls[n] = "add_car"

\* the trace is that of a spawn_car that reached add_car
SpawnedWithAddCar ==
    /\ trace.op = "spawn_car"
    /\ \E n \in 1..Len(trace.calls) : trace.calls[n] = "add_car"

\* C1: while a car stays registered its progress never decreases from one
\* step to the next, and a finished car's progress is 100 before and after
\* every step.
C1_ProgressMonotone ==
    [][\A c \in (DOMAIN car_states) \cap (DOMAIN car_states') :
          /\ car_states'[c].progress >= car_states[c].progress
          /\ car_states[c].status = "finished" => car_states[c].progress = 100
          /\ car_states'[c].status = "finished" => car_states'[c].progress = 100]_vars

\* C1 witness: a car on the three-point path went from 0 over 50 to 100 and
\* was finished.
C1_Witness ==
    \E c \in DOMAIN car_states :
        /\ car_states[c].status = "finished"
        /\ car_states[c].progress = 100
        /\ Len(car_states[c].coordinates) = 3

\* C2: a finished car that stays registered keeps its whole state (so it
\* never moves again), and its advance emits no sample, makes no store call
\* and leaves the store's tables as they are.
C2_FinishedAbsorbing ==
    [][\A c \in DOMAIN car_states :
          car_states[c].status = "finished" =>
             /\ c \in DOMAIN car_states' => car_states'[c] = car_states[c]
             /\ IsAdvanceOf(c) =>
                   /\ trace'.op = "update_car_position"
                   /\ trace'.emitted = <<>>
                   /\ trace'.calls = <<>>
                   /\ trace'.raised = "none"
                   /\ UNCHANGED <<car_states, cars, routes, car_positions>>]_vars

\* C2 witness: the tick loop advanced a car that was already finished.
C2_Witness ==
    /\ trace.op = "update_car_position"
    /\ trace.before = "finished"
    /\ trace.car_id \in DOMAIN car_states

\* C3: add_car with fewer than 2 coordinates raises ValueError, leaves the
\* registry as it was and hands no sample to the store.
C3_ShortPathRejected ==
    [][(IsSpawnWithAddCar /\ Len(trace'.coords) < 2) =>
          /\ trace'.raised = "ValueError"
          /\ trace'.emitted = <<>>
          /\ car_states' = car_states
          /\ car_positions' = car_positions]_vars

\* C3 witness: add_car was called with a one-coordinate path.
C3_Witness ==
    /\ SpawnedWithAddCar
    /\ Len(trace.coords) = 1
    /\ trace.raised = "ValueError"

\* C4: after add_car with at least 2 coordinates the car is registered with
\* that path, index 0, progress 0 and status moving, and exactly one sample
\* was emitted: at path[0], with progress 0 and the bearing from path[0] to
\* path[1] as heading.
C4_Registered ==
    [][(IsSpawnWithAddCar /\ Len(trace'.coords) >= 2) =>
          /\ trace'.car_id \notin DOMAIN car_states
          /\ trace'.car_id \in DOMAIN car_states'
          /\ car_states'[trace'.car_id] =
                [coordinates |-> trace'.coords, current_index |-> 0,
                 progress |-> 0, status |-> "moving"]
          /\ trace'.emitted =
                << [car_id |-> trace'.car_id,
                    lng |-> trace'.coords[1][1], lat |-> trace'.coords[1][2],
                    heading |-> calculate_bearing(trace'.coords[1][1], trace'.coords[1][2],
                                                  trace'.coords[2][1], trace'.coords[2][2]),
                    progress |-> 0] >>
          /\ trace'.raised = "none" =>
                /\ trace'.car_id \in DOMAIN car_positions'
                /\ car_positions'[trace'.car_id] = trace'.emitted[1]]_vars

\* C4 witness: a car was registered on the westward path and its first
\* sample stored.
C4_Witness ==
    /\ SpawnedWithAddCar
    /\ Len(trace.coords) >= 2
    /\ trace.raised = "none"
    /\ trace.car_id \in DOMAIN car_positions
    /\ car_positions[trace.car_id].heading = 270

\* the segment a car is on was not completed by the ticks counted so far,
\* and a completed segment was completed by the first tick k with k*d >= L
ClearedOnFirstTick ==
    /\ \A c \in DOMAIN hist :
          (hist[c].valid /\ hist[c].ticks > 0) =>
              hist[c].ticks * hist[c].budget < hist[c].length
    /\ trace.cleared.valid =>
          /\ trace.cleared.k * trace.cleared.d >= trace.cleared.L
          /\ (trace.cleared.k - 1) * trace.cleared.d < trace.cleared.L

\* the tick that completed the only segment of a path left progress at 100
CompleteOnSameTick ==
    (/\ trace.op = "update_car_position"
     /\ trace.cleared.valid
     /\ trace.car_id \in DOMAIN car_states
     /\ Len(car_states[trace.car_id].coordinates) = 2) =>
        car_states[trace.car_id].progress = 100

\* C5: with a constant budget d > 0 a segment of length L > 0 is completed
\* on exactly the first tick k with k*d >= L, and on a path of one segment
\* the progress is 100 after that same tick.
C5_SegmentCleared ==
    ClearedOnFirstTick /\ CompleteOnSameTick

C7_AtLeastTwoCoordinates ==
    gr.pc = "returned" => Len(gr.route.coordinates) >= 2

\* the provider's answer passes every statement of its tier
Succeeded(resp) ==
    /\ resp.net
    /\ resp.status \in 200..399
    /\ resp.json
    /\ resp.code = "Ok"
    /\ resp.has_routes
    /\ Len(resp.routes) >= 1
    /\ resp.routes[1].has_geometry

\* the route is the provider's first route: its path, distance and duration
IsRouteOf(route, resp) ==
    /\ route.coordinates = resp.routes[1].coordinates
    /\ route.geometry.coordinates = resp.routes[1].coordinates
    /\ route.distance = resp.routes[1].distance
    /\ route.duration = resp.routes[1].duration

\* C8: the tiers are tried in the order primary, public, straight line: the
\* public provider is queried only after the primary attempt failed, the
\* straight line is built only after both failed, and a provider's
\* successful answer is returned with exactly its path, distance and
\* duration.
C8_TiersInOrder ==
    /\ gr.queried \in {<<>>, <<"primary">>, <<"primary", "secondary">>}
    /\ gr.queried = <<"primary", "secondary">> =>
          /\ gr.resp1 # NoResponse
          /\ ~Succeeded(gr.resp1)
    /\ gr.tier = "synthetic" =>
          /\ gr.queried = <<"primary", "secondary">>
          /\ gr.resp2 # NoResponse
          /\ ~Succeeded(gr.resp1)
          /\ ~Succeeded(gr.resp2)
    /\ (gr.pc = "returned" /\ Succeeded(gr.resp1)) =>
          /\ gr.tier = "primary"
          /\ gr.queried = <<"primary">>
          /\ IsRouteOf(gr.route, gr.resp1)
    /\ (gr.pc = "returned" /\ ~Succeeded(gr.resp1) /\ Succeeded(gr.resp2)) =>
          /\ gr.tier = "secondary"
          /\ IsRouteOf(gr.route, gr.resp2)

\* C8 witness: the primary provider answered with an error status and the
\* public provider's route via the midpoint was returned.
C8_Witness ==
    /\ gr.pc = "returned"
    /\ gr.resp1.status = 500
    /\ Succeeded(gr.resp2)
    /\ Len(gr.route.coordinates) = 3
    /\ gr.route.distance = 13500

C10_CycleCompletes ==
    [][loop.pc = "for" =>
          \/ loop' = loop
          \/ /\ loop.i < Len(loop.car_ids)
             /\ loop' = [loop EXCEPT !.i = loop.i + 1]
             /\ trace'.op = "update_car_position"
             /\ trace'.car_id = At(loop.car_ids, loop.i)
          \/ /\ loop.i = Len(loop.car_ids)
             /\ loop' = [loop EXCEPT !.pc = "sleep"]]_vars

\* C10 witness: the advance of the first car of a two-car snapshot raised
\* and the cycle stands at the second car.
C10_Witness ==
    /\ loop.pc = "for"
    /\ Len(loop.car_ids) = 2
    /\ loop.i = 1
    /\ trace.op = "update_car_position"
    /\ trace.car_id = At(loop.car_ids, 0)
    /\ trace.raised # "none"

\* an advance of this cycle has just raised
ErrorRaised ==
    /\ loop.pc = "for"
    /\ loop.i >= 1
    /\ trace.op = "update_car_position"
    /\ trace.raised # "none"

\* a cycle has just begun
CycleBegun ==
    /\ loop.pc = "for"
    /\ loop.i = 0

\* C11: no error ends the tick loop: the loop ends only from its sleep with
\* the running flag cleared, and after an advance raised the loop begins
\* another cycle unless the flag is cleared.  (Nothing in update_all_cars
\* raises outside the per-car try, so the errors are those of the advances.)
C11_LoopSurvivesErrors ==
    /\ [][loop'.pc = "done" =>
             \/ loop.pc = "done"
             \/ loop.pc = "sleep" /\ ~running]_vars
    /\ [][(loop.pc = "sleep" /\ running /\ loop' # loop) => CycleBegun']_vars
    /\ ErrorRaised ~> (CycleBegun \/ ~running)

\* C11 witness: the last advance raised, and the loop has begun the next
\* cycle with the flag still set.
C11_Witness ==
    /\ running
    /\ CycleBegun
    /\ Len(loop.car_ids) >= 1
    /\ trace.op = "update_car_position"
    /\ trace.raised # "none"

\* C12: stop() only clears the flag; the cycle in progress runs to its end;
\* the loop reads the cleared flag after its sleep and ends; once ended it
\* advances nothing; and after stop() the loop does end.
C12_CooperativeStop ==
    /\ [][(running /\ ~running') => (loop' = loop /\ car_states' = car_states)]_vars
    /\ [][(~running /\ loop.pc = "for" /\ loop' # loop) =>
             /\ loop'.car_ids = loop.car_ids
             /\ \/ loop.i < Len(loop.car_ids) /\ loop'.pc = "for" /\ loop'.i = loop.i + 1
                \/ loop.i = Len(loop.car_ids) /\ loop'.pc = "sleep"]_vars
    /\ [][(~running /\ loop.pc = "sleep" /\ loop' # loop) => loop'.pc = "done"]_vars
    /\ [][loop.pc = "done" =>
             /\ loop' = loop
             /\ trace' # trace => trace'.op # "update_car_position"]_vars
    /\ (~running /\ loop.pc # "not_started") ~> (loop.pc = "done")

\* C12 witness: the loop has ended after stop() while a car was still on
\* its way.
C12_Witness ==
    /\ ~running
    /\ loop.pc = "done"
    /\ \E c \in DOMAIN car_states :
          /\ car_states[c].status = "moving"
          /\ car_states[c].current_index = 0
          /\ c \in DOMAIN car_positions
          /\ car_positions[c].lng # 10

\* the coroutine is inside its while loop
Active(l) == l.pc \in {"for", "sleep"}

\* C13: a call of start() while a tick loop is active begins no second tick
\* loop: at most one tick loop is active at any time.
C13_SingleLoop ==
    ~(Active(loop) /\ Active(loop2))

\* C14: after a reset a health query reports zero active cars, whatever
\* was registered before: as long as the reset is the most recent handler,
\* the reply of GET /api/health has active_cars = 0.
C14_ResetThenHealth ==
    trace.op = "reset_simulation" =>
        health_check(running, car_states).active_cars = 0

\* C14 witness: the reset came in the middle of a cycle whose snapshot holds
\* a registered car, and the health reply counts no car.
C14_Witness ==
    /\ trace.op = "reset_simulation"
    /\ loop.pc = "for"
    /\ Len(loop.car_ids) >= 1
    /\ health_check(running, car_states) =
          [status |-> "healthy", simulation_running |-> TRUE, active_cars |-> 0]

\* C15: when a moving car that has not reached its last waypoint is
\* advanced and the store answers without a record of it, the car is removed
\* from the registry and no sample is emitted in that call.
C15_MissingRecordRemoves ==
    [][\A c \in DOMAIN car_states :
          (/\ IsAdvanceOf(c)
           /\ car_states[c].status = "moving"
           /\ car_states[c].current_index < Len(car_states[c].coordinates) - 1
           /\ c \notin DOMAIN cars
           /\ trace'.raised = "none") =>
              /\ c \notin DOMAIN car_states'
              /\ trace'.op = "update_car_position"
              /\ trace'.car_id = c
              /\ trace'.emitted = <<>>
              /\ car_positions' = car_positions]_vars

\* C15 witness: the advance of a moving car read the cars table, found no
\* record and removed the car.
C15_Witness ==
    /\ trace.op = "update_car_position"
    /\ trace.before = "moving"
    /\ trace.calls = <<"get_all_cars">>
    /\ trace.raised = "none"
    /\ trace.car_id \notin DOMAIN car_states
    /\ trace.car_id \notin DOMAIN cars

\* car c is registered and the store has no record of it
Orphaned(c) ==
    /\ c \in DOMAIN car_states
    /\ c \notin DOMAIN cars

\* the last handler was an advance of c in which a store call raised
AdvanceFailed(c) ==
    /\ trace.op = "update_car_position"
    /\ trace.car_id = c
    /\ trace.raised # "none"

\* C16: every registered car whose record is deleted from the store is
\* eventually removed from the registry by the running loop, whatever its
\* status or position (stated here even more weakly: unless the loop is
\* stopped or a store call of its advance raises).
C16_DeletedEventuallyRemoved ==
    \A c \in 1..MaxCars :
        Orphaned(c) ~> (c \notin DOMAIN car_states \/ ~running \/ AdvanceFailed(c))

\* the same for the cars that are moving and short of their last waypoint
\* when the record is deleted
MovingOrphanRemoved ==
    \A c \in 1..MaxCars :
        (/\ Orphaned(c)
         /\ car_states[c].status = "moving"
         /\ car_states[c].current_index < Len(car_states[c].coordinates) - 1)
            ~> (c \notin DOMAIN car_states \/ ~running \/ AdvanceFailed(c))

\* metres covered in one update interval at the speed the store holds for c
StoredBudget(c) ==
    (cars[c].speed * UpdateIntervalTenths) \div 36

\* metres from c's current point to the sample the step emitted
Moved(c) ==
    LET from == At(car_states[c].coordinates, car_states[c].current_index)
        to == trace'.emitted[1]
    IN calculate_distance(from[2], from[1], to.lat, to.lng)

\* C17: the budget of an advance comes from the speed the store holds at
\* that advance: the sample lies at the budget's distance from the car's
\* current point, or on the next waypoint when the budget reaches it; so
\* after the stored speed changed the very next advance moves by the new
\* speed.
C17_SpeedReadEachTick ==
    [][\A c \in DOMAIN car_states :
          (IsAdvanceOf(c) /\ trace'.emitted # <<>>) =>
              /\ c \in DOMAIN cars
              /\ Moved(c) = IF StoredBudget(c) >= segment_length(car_states[c])
                            THEN segment_length(car_states[c])
                            ELSE StoredBudget(c)]_vars

\* C17 witness: the car has left its start with a budget of 4 m, the stored
\* speed is now 0, and the last advance left it where it was.
C17_Witness ==
    \E c \in DOMAIN car_states :
        /\ c \in DOMAIN cars
        /\ cars[c].speed = 0
        /\ car_states[c].current_index = 0
        /\ car_states[c].coordinates[1] = Point(6, 0)
        /\ trace.op = "update_car_position"
        /\ trace.car_id = c
        /\ trace.emitted # <<>>
        /\ ~hist[c].valid

\* C18: for every registered car 0 <= current_index <= len(path) - 1, and
\* the path has the length it was registered with (that of the route stored
\* at the spawn), which is at least 2.
C18_IndexInBounds ==
    \A c \in DOMAIN car_states :
        /\ car_states[c].current_index >= 0
        /\ car_states[c].current_index <= Len(car_states[c].coordinates) - 1
        /\ Len(car_states[c].coordinates) >= 2
        /\ c \in DOMAIN routes =>
              Len(car_states[c].coordinates) = Len(routes[c].geometry.coordinates)

\* C18 witness: a car on the three-point path stands on its last waypoint,
\* index 2, after interpolated points were written into its path.
C18_Witness ==
    \E c \in DOMAIN car_states :
        /\ c \in DOMAIN routes
        /\ Len(routes[c].geometry.coordinates) = 3
        /\ car_states[c].current_index = 2
        /\ car_states[c].coordinates # routes[c].geometry.coordinates

\* the step's handler called the store's update_car_status
SendsFinished ==
    /\ trace' # trace
    /\ \E n \in 1..Len(trace'.calls) : trace'.calls[n] = "update_car_status"

\* C19: the advance of a moving car whose index is at or past its last
\* waypoint makes it finished with progress 100, emits no sample and sends
\* the status 'finished' to the store; the update is sent at most once per
\* car: only by the step that takes the car from moving to finished, and a
\* finished car is never moving again.
C19_FinishTransition ==
    [][\A c \in DOMAIN car_states :
          /\ (/\ IsAdvanceOf(c)
              /\ car_states[c].status = "moving"
              /\ car_states[c].current_index >= Len(car_states[c].coordinates) - 1) =>
                 /\ c \in DOMAIN car_states'
                 /\ car_states'[c] = [car_states[c] EXCEPT !.status = "finished",
                                                            !.progress = 100]
                 /\ trace'.emitted = <<>>
                 /\ trace'.calls = <<"update_car_status">>
                 /\ car_positions' = car_positions
          /\ (IsAdvanceOf(c) /\ SendsFinished) =>
                 /\ car_states[c].status = "moving"
                 /\ car_states'[c].status = "finished"
          /\ (car_states[c].status = "finished" /\ c \in DOMAIN car_states') =>
                 car_states'[c].status = "finished"]_vars

\* C19 witness: the advance of a moving car on its last waypoint sent the
\* status update, which the store applied, and emitted nothing.
C19_Witness ==
    /\ trace.op = "update_car_position"
    /\ trace.before = "moving"
    /\ trace.calls = <<"update_car_status">>
    /\ trace.emitted = <<>>
    /\ trace.raised = "none"
    /\ trace.car_id \in DOMAIN car_states
    /\ car_states[trace.car_id].status = "finished"
    /\ trace.car_id \in DOMAIN cars
    /\ cars[trace.car_id].status = "finished"

\* the step's advance got as far as computing its budget
BudgetComputed ==
    ~(trace'.calls = <<"get_all_cars">> /\ trace'.raised # "none")

\* C20: when the budget is at least the length of the current segment, one
\* advance increases the index by exactly 1, however many segments the
\* budget spans; the sample it emits lies exactly on the waypoint
\* path[new index]; and nothing is carried over: the path is left as it is,
\* so the next segment starts on the waypoint with its full length.
C20_WaypointStep ==
    [][\A c \in DOMAIN car_states :
          (/\ IsAdvanceOf(c)
           /\ car_states[c].status = "moving"
           /\ car_states[c].current_index < Len(car_states[c].coordinates) - 1
           /\ c \in DOMAIN cars
           /\ StoredBudget(c) >= segment_length(car_states[c])
           /\ BudgetComputed) =>
              LET waypoint == At(car_states[c].coordinates,
                                 car_states[c].current_index + 1)
              IN /\ c \in DOMAIN car_states'
                 /\ car_states'[c].current_index = car_states[c].current_index + 1
                 /\ car_states'[c].coordinates = car_states[c].coordinates
                 /\ Len(trace'.emitted) <= 1
                 /\ trace'.raised = "none" => Len(trace'.emitted) = 1
                 /\ \A n \in 1..Len(trace'.emitted) :
                       /\ trace'.emitted[n].car_id = c
                       /\ trace'.emitted[n].lng = waypoint[1]
                       /\ trace'.emitted[n].lat = waypoint[2]]_vars

\* C20 witness: on the straight line of 1 m segments a budget of 4 m has
\* taken the car to its third waypoint, one waypoint per advance, and the
\* last sample lies on that waypoint.
C20_Witness ==
    \E c \in DOMAIN car_states :
        /\ Len(car_states[c].coordinates) = 11
        /\ car_states[c].current_index = 3
        /\ c \in DOMAIN cars
        /\ cars[c].speed = 72
        /\ trace.op = "update_car_position"
        /\ trace.car_id = c
        /\ trace.raised = "none"
        /\ Len(trace.emitted) = 1
        /\ trace.emitted[1].lng = 7
        /\ trace.emitted[1].lat = 0

\* C21: when the budget is smaller than the current segment, one advance
\* rewrites only path[current_index], to the interpolated point: the index,
\* the status, the progress, the path's length and every other entry of the
\* path are unchanged, and the emitted sample lies on the rewritten point.
C21_InterpolationFrame ==
    [][\A c \in DOMAIN car_states :
          (/\ IsAdvanceOf(c)
           /\ car_states[c].status = "moving"
           /\ car_states[c].current_index < Len(car_states[c].coordinates) - 1
           /\ c \in DOMAIN cars
           /\ StoredBudget(c) < segment_length(car_states[c])
           /\ BudgetComputed) =>
              LET old == car_states[c]
                  path == old.coordinates
                  i == old.current_index
              IN /\ c \in DOMAIN car_states'
                 /\ car_states'[c].current_index = i
                 /\ car_states'[c].status = old.status
                 /\ car_states'[c].progress = old.progress
                 /\ Len(car_states'[c].coordinates) = Len(path)
                 /\ \A j \in 0..(Len(path) - 1) :
                       j # i => At(car_states'[c].coordinates, j) = At(path, j)
                 /\ Len(trace'.emitted) = 1
                 /\ trace'.emitted[1].car_id = c
                 /\ At(car_states'[c].coordinates, i) =
                       Point(trace'.emitted[1].lng, trace'.emitted[1].lat)
                 /\ calculate_distance(At(path, i)[2], At(path, i)[1],
                                       trace'.emitted[1].lat, trace'.emitted[1].lng)
                       = StoredBudget(c)]_vars

\* C21 witness: on the route via the midpoint the car has interpolated on
\* its second segment: path[1] was rewritten from (5,0) to (1,0), the start
\* and the final waypoint are as they were, and the sample lies on (1,0).
C21_Witness ==
    \E c \in DOMAIN car_states :
        /\ car_states[c].current_index = 1
        /\ Len(car_states[c].coordinates) = 3
        /\ car_states[c].coordinates[2] = Point(1, 0)
        /\ car_states[c].coordinates[3] = Point(0, 0)
        /\ car_states[c].progress = 50
        /\ trace.op = "update_car_position"
        /\ trace.car_id = c
        /\ Len(trace.emitted) = 1
        /\ trace.emitted[1].lng = 1

\* C22: for every registered car the progress equals
\* (current_index / (len(path) - 1)) * 100, every emitted sample carries the
\* value computed after the index update of its advance, and the progress
\* lies in [0, 100].
C22_ProgressFormula ==
    /\ \A c \in DOMAIN car_states :
          /\ car_states[c].progress =
                (car_states[c].current_index * 100)
                    \div (Len(car_states[c].coordinates) - 1)
          /\ car_states[c].progress >= 0
          /\ car_states[c].progress <= 100
    /\ (trace.op = "update_car_position" /\ trace.car_id \in DOMAIN car_states) =>
          \A n \in 1..Len(trace.emitted) :
              trace.emitted[n].progress =
                  (car_states[trace.car_id].current_index * 100)
                      \div (Len(car_states[trace.car_id].coordinates) - 1)

\* C23: when an advance moves the car onto the last waypoint of its path,
\* the heading of the emitted sample is that of the car's most recently
\* stored sample, or 0 if the store holds none; when a further waypoint
\* follows, it is the bearing from the new waypoint to the following one.
C23_WaypointHeading ==
    [][\A c \in DOMAIN car_states :
          (/\ IsAdvanceOf(c)
           /\ car_states[c].status = "moving"
           /\ car_states[c].current_index < Len(car_states[c].coordinates) - 1
           /\ c \in DOMAIN cars
           /\ StoredBudget(c) >= segment_length(car_states[c])
           /\ trace'.emitted # <<>>) =>
              LET path == car_states[c].coordinates
                  new == car_states[c].current_index + 1
              IN trace'.emitted[1].heading =
                    IF new = Len(path) - 1
                    THEN IF c \in DOMAIN car_positions
                         THEN car_positions[c].heading ELSE 0
                    ELSE calculate_bearing(At(path, new)[1], At(path, new)[2],
                                           At(path, new + 1)[1], At(path, new + 1)[2])]_vars

\* C23 witness: the car has just been moved onto its last waypoint and the
\* sample stored for it carries the heading 270 of the sample stored before.
C23_Witness ==
    \E c \in DOMAIN car_states :
        /\ car_states[c].status = "moving"
        /\ car_states[c].current_index = Len(car_states[c].coordinates) - 1
        /\ trace.op = "update_car_position"
        /\ trace.car_id = c
        /\ trace.calls = <<"get_all_cars", "get_car_latest_position",
                           "insert_car_position">>
        /\ trace.raised = "none"
        /\ trace.emitted[1].heading = 270
        /\ car_positions[c] = trace.emitted[1]

\* the store held no sample of the car when it was moved onto its last
\* waypoint, and the sample's heading is 0
HeadingWithoutSample ==
    /\ trace.op = "update_car_position"
    /\ trace.calls = <<"get_all_cars", "get_car_latest_position",
                       "insert_car_position">>
    /\ trace.emitted # <<>>
    /\ trace.emitted[1].heading = 0

\* C24: a cycle begins with the list of the ids registered at that moment
\* and advances exactly these, one after the other, and nothing else advances
\* a car; a car registered while the cycle runs is not in the cycle's list;
\* an id of the list that is no longer registered when its turn comes is
\* passed over without an error, a store call, a sample or a change of the
\* registry.
C24_CycleSnapshot ==
    [][/\ (loop.pc # "for" /\ loop'.pc = "for") =>
             /\ loop'.car_ids = keys_list(DOMAIN car_states)
             /\ loop'.i = 0
       /\ (loop.pc = "for" /\ loop'.pc = "for") =>
             /\ loop'.car_ids = loop.car_ids
             /\ loop'.i \in {loop.i, loop.i + 1}
       /\ (loop.pc = "for" /\ loop'.pc # "for") =>
             /\ loop.i = Len(loop.car_ids)
             /\ loop'.pc = "sleep"
       /\ \A c \in (DOMAIN car_states) \cap (DOMAIN car_states') :
             car_states'[c] # car_states[c] => IsAdvanceOf(c)
       /\ (trace' # trace /\ trace'.op = "update_car_position") =>
             IsAdvanceOf(trace'.car_id)
       /\ \A c \in (DOMAIN car_states') \ (DOMAIN car_states) :
             loop'.pc = "for" =>
                \A n \in 1..Len(loop'.car_ids) : loop'.car_ids[n] # c
       /\ \A n \in 1..Len(loop.car_ids) :
             LET c == loop.car_ids[n]
             IN (IsAdvanceOf(c) /\ c \notin DOMAIN car_states) =>
                   /\ car_states' = car_states
                   /\ cars' = cars
                   /\ routes' = routes
                   /\ car_positions' = car_positions
                   /\ trace'.calls = <<>>
                   /\ trace'.emitted = <<>>
                   /\ trace'.raised = "none"]_vars

\* C24 witness: the cycle has passed over an id of its list that was removed
\* from the registry after the cycle began.
C24_Witness ==
    /\ loop.pc = "for"
    /\ loop.i >= 1
    /\ trace.op = "update_car_position"
    /\ trace.car_id = At(loop.car_ids, loop.i - 1)
    /\ trace.before = "absent"
    /\ trace.car_id \notin DOMAIN car_states
    /\ trace.raised = "none"

\* C25: when no store call fails, a car that is registered and moving, whose
\* row exists with a speed above 0 while the loop runs, is eventually
\* finished, unless before that it leaves the registry, its row is deleted,
\* its speed is set to 0 or the loop is stopped.
C25_EventuallyFinished ==
    \A c \in 1..MaxCars :
        (/\ running
         /\ c \in DOMAIN car_states
         /\ c \in DOMAIN cars
         /\ cars[c].speed > 0)
        ~> (\/ ~running
            \/ c \notin DOMAIN car_states
            \/ c \notin DOMAIN cars
            \/ cars[c].speed <= 0
            \/ car_states[c].status = "finished")

\* C25 witness: a car whose segment of 10 m took three ticks of 4 m is
\* finished while the loop runs and its row holds the speed 72.
C25_Witness ==
    \E c \in DOMAIN car_states :
        /\ running
        /\ car_states[c].status = "finished"
        /\ Len(car_states[c].coordinates) = 2
        /\ c \in DOMAIN cars
        /\ cars[c].speed = 72
        /\ cars[c].status = "finished"

\* a finished car stands on the last waypoint of its path with progress 100
FinishedAtEnd ==
    \A c \in DOMAIN car_states :
        car_states[c].status = "finished" =>
            /\ car_states[c].current_index = Len(car_states[c].coordinates) - 1
            /\ car_states[c].progress = 100

\* C26: a finished car has current_index = len(coordinates) - 1 and progress
\* 100, and when no store call failed the latest sample stored for it lies on
\* the last waypoint of its path with progress 100.
C26_FinishedAtLastWaypoint ==
    /\ FinishedAtEnd
    /\ \A c \in (DOMAIN car_states) \cap (DOMAIN car_positions) :
          car_states[c].status = "finished" =>
             LET path == car_states[c].coordinates
                 last == At(path, Len(path) - 1)
             IN /\ car_positions[c].lng = last[1]
                /\ car_positions[c].lat = last[2]
                /\ car_positions[c].progress = 100

\* C26 witness: a car has just been finished and the sample stored for it
\* lies on the end of its path, (0,0), with progress 100.
C26_Witness ==
    \E c \in (DOMAIN car_states) \cap (DOMAIN car_positions) :
        /\ car_states[c].status = "finished"
        /\ trace.op = "update_car_position"
        /\ trace.car_id = c
        /\ trace.before = "moving"
        /\ car_positions[c].lng = 0
        /\ car_positions[c].lat = 0
        /\ car_positions[c].progress = 100

\* a car is moving with progress 100: it reached its last waypoint and the
\* tick that finishes it has not come
MovingAtEnd ==
    \E c \in DOMAIN car_states :
        /\ car_states[c].status = "moving"
        /\ car_states[c].progress = 100

\* the store call that ended the last handler with an error
FailedCall ==
    IF trace.raised = "StoreError" /\ trace.calls # <<>>
    THEN trace.calls[Len(trace.calls)] ELSE "none"

\* C27: an advance whose get_car_latest_position or insert_car_position call
\* raises leaves the car's current_index, coordinates and progress as they
\* were before the advance.
C27_FailedAdvanceKeepsState ==
    [][\A c \in DOMAIN car_states :
          (/\ IsAdvanceOf(c)
           /\ trace'.op = "update_car_position"
           /\ trace'.raised = "StoreError"
           /\ trace'.calls # <<>>
           /\ trace'.calls[Len(trace'.calls)] \in
                 {"get_car_latest_position", "insert_car_position"}) =>
              /\ c \in DOMAIN car_states'
              /\ car_states'[c].current_index = car_states[c].current_index
              /\ car_states'[c].coordinates = car_states[c].coordinates
              /\ car_states'[c].progress = car_states[c].progress]_vars

\* C28: whenever a car is finished in the registry and its row exists, the
\* row's status is 'finished' or becomes 'finished' later (unless the row is
\* deleted, the car leaves the registry or the loop is stopped before that),
\* whether or not update_car_status failed.
C28_StoreStatusFollows ==
    \A c \in 1..MaxCars :
        (/\ running
         /\ c \in DOMAIN car_states
         /\ car_states[c].status = "finished"
         /\ c \in DOMAIN cars)
        ~> (\/ ~running
            \/ c \notin DOMAIN car_states
            \/ c \notin DOMAIN cars
            \/ cars[c].status = "finished")

\* C29: when the last handler that ended is a reset that emptied the
\* registry and the store, the advance of an id of the running cycle and the
\* rest of a spawn that was suspended when the reset ran leave the registry
\* and the position samples empty.
C29_ResetLeavesNoTrace ==
    [][(/\ trace.op = "reset_simulation"
        /\ trace.raised = "none"
        /\ \/ gr.pc # "idle"
           \/ \E n \in 1..Len(loop.car_ids) : IsAdvanceOf(loop.car_ids[n])) =>
           /\ car_states' = Empty
           /\ car_positions' = Empty]_vars

\* C30: a spawn_car that ends with an error leaves no row in cars, no row in
\* routes and no registry entry for the id it generated; and a car that a
\* spawn_car registered has a row in cars, inserted before add_car was called.
C30_SpawnAllOrNothing ==
    [][(trace'.op = "spawn_car" /\ next_id' = next_id + 1) =>
          /\ trace'.raised # "none" =>
                /\ next_id \notin DOMAIN cars'
                /\ next_id \notin DOMAIN routes'
                /\ next_id \notin DOMAIN car_states'
          /\ next_id \in DOMAIN car_states' =>
                /\ next_id \in DOMAIN cars'
                /\ Len(trace'.calls) >= 3
                /\ trace'.calls[1] = "insert_car"
                /\ trace'.calls[3] = "add_car"]_vars

=============================================================================
